---------------------------- MODULE Spec2Model ----------------------------
(***************************************************************************)
(* kubectl-walk: flattening of a decoded YAML document (yaml.Node tree)    *)
(* into "path: value" lines, and resolution of an --entry path expression. *)
(*                                                                         *)
(* Modelled program: src/unnamed/part_000, lines 1-393 (the variant with   *)
(* --depth and --pure).  A Go string is a sequence of one-character        *)
(* strings, so that splitting, joining, slicing and number parsing are     *)
(* computed character by character as the library functions compute them.  *)
(* The backspace character "\b" of the source is written "\\b" here: it    *)
(* is one character of the string.                                         *)
(***************************************************************************)
EXTENDS Integers, Sequences, FiniteSets, TLC

(***************************************************************************)
(* Bounds of the model.                                                    *)
(***************************************************************************)
\* A document has at most MaxNodes value nodes (mappings, sequences, scalars).
MaxNodes == 4
\* --depth ranges over -2 .. MaxDepthFlag (its default is -1).
MaxDepthFlag == 2

(***************************************************************************)
(* Go strings and the strings / strconv functions the program calls.       *)
(***************************************************************************)
BS == "\\b"

Digits == <<"0", "1", "2", "3", "4", "5", "6", "7", "8", "9">>

\* The value of the decimal digit ch, or -1 when ch is not a digit.
DigitVal(ch) ==
  IF \E d \in 1..10 : Digits[d] = ch
    THEN (CHOOSE d \in 1..10 : Digits[d] = ch) - 1
    ELSE -1

RECURSIVE Itoa(_)
\* fmt's %d of an integer.
Itoa(n) ==
  IF n < 0 THEN <<"-">> \o Itoa(0 - n)
  ELSE IF n < 10 THEN <<Digits[n + 1]>>
  ELSE Itoa(n \div 10) \o <<Digits[(n % 10) + 1]>>

\* strings.Index(s, c) for a one-character c: the 0-based position of the
\* first occurrence, -1 when there is none.
Index(s, c) ==
  IF \E p \in 1..Len(s) : s[p] = c
    THEN (CHOOSE p \in 1..Len(s) : s[p] = c /\ \A q \in 1..(p - 1) : s[q] # c) - 1
    ELSE -1

\* strings.Contains(s, c).
Contains(s, c) == Index(s, c) >= 0

RECURSIVE Split(_, _)
\* strings.Split(s, sep) for a one-character sep: Split("", ".") is [""].
Split(s, sep) ==
  LET p == Index(s, sep)
  IN  IF p < 0 THEN <<s>>
      ELSE <<SubSeq(s, 1, p)>> \o Split(SubSeq(s, p + 2, Len(s)), sep)

RECURSIVE Join(_, _)
\* strings.Join(elems, sep).
Join(elems, sep) ==
  IF Len(elems) = 0 THEN <<>>
  ELSE IF Len(elems) = 1 THEN elems[1]
  ELSE elems[1] \o sep \o Join(Tail(elems), sep)

RECURSIVE AtoiDigits(_, _)
\* The digit loop of strconv.Atoi: -1 on a character that is no digit.
AtoiDigits(s, n) ==
  IF Len(s) = 0 THEN n
  ELSE IF DigitVal(s[1]) < 0 THEN -1
  ELSE AtoiDigits(Tail(s), n * 10 + DigitVal(s[1]))

\* strconv.Atoi(s): the value and whether an error is returned; the value
\* returned with a syntax error is 0.
Atoi(s) ==
  IF Len(s) = 0 THEN [n |-> 0, err |-> TRUE]
  ELSE LET signed == s[1] \in {"-", "+"}
           body   == IF signed THEN Tail(s) ELSE s
           v      == AtoiDigits(body, 0)
       IN  IF Len(body) = 0 \/ v < 0 THEN [n |-> 0, err |-> TRUE]
           ELSE [n |-> IF s[1] = "-" THEN 0 - v ELSE v, err |-> FALSE]

(***************************************************************************)
(* yaml.Node: Kind, Value and Content.  A mapping's Content alternates     *)
(* key nodes and value nodes; a sequence's Content is its items.  The      *)
(* documents are built of mappings, sequences and scalars, with the keys   *)
(* of one mapping distinct.                                                *)
(***************************************************************************)
DocumentNode == "DocumentNode"
SequenceNode == "SequenceNode"
MappingNode  == "MappingNode"
ScalarNode   == "ScalarNode"

Scalar(v)    == [Kind |-> ScalarNode,   Value |-> v,    Content |-> <<>>]
Sequence(c)  == [Kind |-> SequenceNode, Value |-> <<>>, Content |-> c]
Mapping(c)   == [Kind |-> MappingNode,  Value |-> <<>>, Content |-> c]
\* What yaml.Unmarshal stores in yamlRoot: a document node around the root.
Document(n)  == [Kind |-> DocumentNode, Value |-> <<>>, Content |-> <<n>>]
\* The nil *yaml.Node.
NilNode      == [Kind |-> "nil", Value |-> <<>>, Content |-> <<>>]

\* Keys and scalar texts of the generated documents.
KeyA      == <<"a">>
KeyStatus == <<"s", "t", "a", "t", "u", "s">>
Keys      == {KeyA, KeyStatus}
ValX      == <<"x">>

\* Sequences of n distinct keys.
KeySeqs(n) ==
  {ks \in [1..n -> Keys] : \A i, j \in 1..n : i # j => ks[i] # ks[j]}

\* Content of the mapping whose i-th entry is ks[i]: f[i].
MapContent(ks, f) ==
  [i \in 1..(2 * Len(f)) |->
     IF i % 2 = 1 THEN Scalar(ks[(i + 1) \div 2]) ELSE f[i \div 2]]

RECURSIVE TreesOfSize(_), Forests(_)
\* The documents with exactly n value nodes.
TreesOfSize(n) ==
  IF n = 1
    THEN {Scalar(ValX), Mapping(<<>>), Sequence(<<>>)}
    ELSE {Sequence(f) : f \in Forests(n - 1)}
         \cup UNION {{Mapping(MapContent(ks, f)) : ks \in KeySeqs(Len(f))}
                       : f \in Forests(n - 1)}

\* The non-empty lists of documents with n value nodes in all.
Forests(n) ==
  UNION {{<<t>> \o f : t \in TreesOfSize(k),
                       f \in (IF k = n THEN {<<>>} ELSE Forests(n - k))}
           : k \in 1..n}

Trees == UNION {TreesOfSize(n) : n \in 1..MaxNodes}

(***************************************************************************)
(* getMapValue and findNodeByPath.                                         *)
(***************************************************************************)
RECURSIVE getMapValueFrom(_, _, _)
\* The loop of getMapValue from 0-based position i: the value of the first
\* entry whose key node's Value is key.
getMapValueFrom(node, key, i) ==
  IF i >= Len(node.Content) THEN NilNode
  ELSE IF node.Content[i + 1].Value = key THEN node.Content[i + 2]
  ELSE getMapValueFrom(node, key, i + 2)

getMapValue(node, key) ==
  IF node.Kind # MappingNode THEN NilNode ELSE getMapValueFrom(node, key, 0)

\* What findNodeByPath returns, or the run-time panic that ends it.  at is
\* the number of parts the loop has examined.
Found(n, k) ==
  [status |-> "ok", node |-> n, fmt |-> "", args |-> <<>>, at |-> k]
\* fmt.Errorf(f, args...): the format and its operands as they are printed.
Errorf(f, args, k) ==
  [status |-> "error", node |-> NilNode, fmt |-> f, args |-> args, at |-> k]
Panic(what, k) ==
  [status |-> "panic", node |-> NilNode, fmt |-> what, args |-> <<>>, at |-> k]

KeyNotFoundFmt   == "key %s not found"
IndexRangeFmt    == "index [%d] out of range for %s"
InvalidFormatFmt == "invalid format: %s"

\* "ensure list exists": the test that guards child.Content[index].
outOfRangeStrict(child, index) ==
  child.Kind # SequenceNode \/ index > Len(child.Content)
outOfRange(child, index) ==
  child.Kind # SequenceNode \/ index >= Len(child.Content)

RECURSIVE findLoop(_, _, _, _)
\* The loop of findNodeByPath over parts, k parts already examined.
findLoop(current, parts, k, entrypoint) ==
  IF k >= Len(parts) THEN Found(current, k)
  ELSE
    LET part == parts[k + 1]
    IN  IF Contains(part, "[")
          THEN
            LET lb    == Index(part, "[")
                rb    == Index(part, "]")
                name  == SubSeq(part, 1, lb)
                index == Atoi(SubSeq(part, lb + 2, rb)).n
                child == getMapValue(current, name)
            IN  IF rb < lb + 1
                  THEN Panic("slice bounds out of range", k + 1)
                ELSE IF child = NilNode
                  THEN Errorf(KeyNotFoundFmt, <<name>>, k + 1)
                ELSE IF outOfRange(child, index)
                  THEN Errorf(IndexRangeFmt, <<Itoa(index), name>>, k + 1)
                ELSE IF index < 0 \/ index >= Len(child.Content)
                  THEN Panic("index out of range", k + 1)
                ELSE findLoop(child.Content[index + 1], parts, k + 1, entrypoint)
          ELSE
            LET next == getMapValue(current, part)
            IN  IF next = NilNode
                  THEN Errorf(InvalidFormatFmt, <<entrypoint>>, k + 1)
                  ELSE findLoop(next, parts, k + 1, entrypoint)

findNodeByPath(node, entrypoint) ==
  findLoop(node, Split(entrypoint, "."), 0, entrypoint)

(***************************************************************************)
(* Go slices of strings: a slice is a window (arr, len, cap) on a backing  *)
(* array of the heap; append writes in place while len < cap and moves to  *)
(* a new array otherwise.                                                  *)
(***************************************************************************)
NilSlice == [arr |-> 0, len |-> 0, cap |-> 0]

\* The elements of slice s in heap h.
Elems(h, s) == IF s.len = 0 THEN <<>> ELSE SubSeq(h[s.arr], 1, s.len)

\* The capacity append gives the new array of a full slice (runtime growslice
\* below its doubling threshold).
growCap(oldCap) == IF oldCap = 0 THEN 1 ELSE 2 * oldCap

\* append(s, x): the heap after it and the slice it returns.
append(h, s, x) ==
  IF s.len < s.cap
    THEN [heap  |-> [h EXCEPT ![s.arr][s.len + 1] = x],
          slice |-> [s EXCEPT !.len = s.len + 1]]
    ELSE LET c == growCap(s.cap)
         IN  [heap  |-> Append(h, [j \in 1..c |->
                                    IF j <= s.len THEN h[s.arr][j]
                                    ELSE IF j = s.len + 1 THEN x ELSE <<>>]),
              slice |-> [arr |-> Len(h) + 1, len |-> s.len + 1, cap |-> c]]

(***************************************************************************)
(* The flags, the decoded document and the state of one run of main.       *)
(***************************************************************************)
VARIABLES
  root,       \* yamlRoot.Content[0], the decoded document
  entry,      \* --entry
  depth,      \* --depth
  pure,       \* --pure
  fromFile,   \* --file is given
  pc,         \* where main is: "start", "walk", "done", "panic", "found"
  entryPath,  \* the slice entryPath of main
  heap,       \* the backing arrays of the path slices
  stack,      \* the active calls of walk, innermost last
  out,        \* the lines written to out, in order
  trace,      \* for each line of out, the route from the start node to its node
  visits,     \* the routes of the nodes walk has been called on, in order
  start,      \* the node main hands to walk
  res         \* what findNodeByPath returned

vars == <<root, entry, depth, pure, fromFile, pc, entryPath, heap, stack,
          out, trace, visits, start, res>>

autoGenerated ==
  { <<"c","r","e","a","t","i","o","n","T","i","m","e","s","t","a","m","p">>,
    <<"r","e","s","o","u","r","c","e","V","e","r","s","i","o","n">>,
    <<"g","e","n","e","r","a","t","i","o","n">>,
    <<"u","i","d">>,
    <<"m","a","n","a","g","e","d","F","i","e","l","d","s">>,
    <<"s","e","l","f","L","i","n","k">>,
    KeyStatus }

ObjectText == <<"<", "o", "b", "j", "e", "c", "t", ">">>
ArrayText  == <<"<", "a", "r", "r", "a", "y", ">">>

\* One line of output: fmt.Fprintf(out, "%s: %s\n", strings.Join(path, "."), v).
Line(path, v) == Join(path, <<".">>) \o <<":", " ">> \o v

\* The label walk appends for item i of a sequence.
indexLabel(i) == <<BS, "[">> \o Itoa(i) \o <<"]">>

\* skipped with the flag inverted.
skippedUnlessPure(key) == ~pure /\ key \in autoGenerated

\* "Skip the ladder": the entry with this key is not walked.
skipped(key) == pure /\ key \in autoGenerated

\* nextRem without the decrement.
nextRemSame(remain) == remain

\* nextRem of walk.
nextRem(remain) == IF remain > 0 THEN remain - 1 ELSE remain

\* A call walk(node, path, out, remain); route is where node lies under start.
Frame(node, path, remain, route) ==
  [node |-> node, path |-> path, remain |-> remain, i |-> 0, st |-> "enter",
   route |-> route]

\* The loop condition of walk, off by one entry.
loopDoneEarly(f) == f.i + 2 >= Len(f.node.Content)

\* The loop of call f has run over all of Content.
loopDone(f) == f.i >= Len(f.node.Content)

Top == stack[Len(stack)]
Pop == SubSeq(stack, 1, Len(stack) - 1)

(***************************************************************************)
(* The inputs of a run.                                                    *)
(***************************************************************************)
Depths == (-2)..MaxDepthFlag

P_a       == <<"a">>
P_a0      == <<"a", "[", "0", "]">>
P_a1      == <<"a", "[", "1", "]">>
P_a2      == <<"a", "[", "2", "]">>
P_a5      == <<"a", "[", "5", "]">>
P_aNeg    == <<"a", "[", "-", "1", "]">>
P_aX      == <<"a", "[", "x", "]">>
P_aEmpty  == <<"a", "[", "]">>
P_aOpen   == <<"a", "[", "0">>
P_aClose  == <<"a", "]">>
P_aRev    == <<"a", "]", "0", "[">>
P_aDotDot == <<"a", ".", ".", "a">>
P_aa      == <<"a", ".", "a">>
P_a0a     == <<"a", "[", "0", "]", ".", "a">>
P_aSt     == <<"a", "."  >> \o KeyStatus
P_stA     == KeyStatus \o <<".", "a">>
P_a0a0    == <<"a", "[", "0", "]", ".", "a", "[", "0", "]">>

\* The --entry values of the runs of main.
HostPaths == {<<>>, P_a, P_a0, P_aSt, P_a0a, P_aOpen}

\* The path expressions findNodeByPath is applied to.
FindPaths ==
  {<<>>, P_a, P_a0, P_a1, P_a2, P_a5, P_aNeg, P_aX, P_aEmpty, P_aOpen,
   P_aClose, P_aRev, P_aDotDot, P_aa, P_a0a, P_aSt, P_stA, P_a0a0}

Init ==
  /\ root \in Trees
  /\ entry \in HostPaths
  /\ depth \in Depths
  /\ pure \in BOOLEAN
  /\ fromFile \in BOOLEAN
  /\ pc = "start"
  /\ entryPath = NilSlice
  /\ heap = <<>>
  /\ stack = <<>>
  /\ out = <<>>
  /\ trace = <<>>
  /\ visits = <<>>
  /\ start = NilNode
  /\ res = Found(NilNode, 0)

(***************************************************************************)
(* main.                                                                   *)
(***************************************************************************)
\* parseEntry splitting between all characters, as strings.Split(entry, "") does.
parseEntryChars(e) == [i \in 1..Len(e) |-> <<e[i]>>]

\* entryPath := []string{}; if entry != "" { entryPath = strings.Split(entry, ".") }
parseEntry(e) == IF e = <<>> THEN <<>> ELSE Split(e, ".")

\* The slice strings.Split returns holds its parts exactly; []string{} holds
\* nothing.
entrySlice(parts) ==
  IF Len(parts) = 0 THEN NilSlice
  ELSE [arr |-> 1, len |-> Len(parts), cap |-> Len(parts)]

\* main up to the decoded document: entryPath is built.
Prepare ==
  /\ entryPath' = entrySlice(parseEntry(entry))
  /\ heap' = IF Len(parseEntry(entry)) = 0 THEN <<>> ELSE <<parseEntry(entry)>>

\* CallWalk with an empty path in place of entryPath.
CallWalkEmpty(node) ==
  /\ start' = node
  /\ stack' = <<Frame(node, NilSlice, depth, <<>>)>>
  /\ visits' = << <<>> >>
  /\ pc' = "walk"

\* walk(node, entryPath, out, int(depth))
CallWalk(node) ==
  /\ start' = node
  /\ stack' = <<Frame(node, entrySlice(parseEntry(entry)), depth, <<>>)>>
  /\ visits' = << <<>> >>
  /\ pc' = "walk"

\* rootNode, err = findNodeByPath(&yamlRoot, entry); the error is printed and
\* main returns, or the node found is walked.
ResolveAndWalk ==
  LET r == findNodeByPath(Document(root), entry)
  IN  /\ res' = r
      /\ IF r.status = "ok"
           THEN CallWalk(r.node)
           ELSE /\ pc' = IF r.status = "panic" THEN "panic" ELSE "done"
                /\ UNCHANGED <<start, stack, visits>>

\* --file: the document of the file is walked from its root.
MainFile ==
  /\ pc = "start"
  /\ fromFile
  /\ Prepare
  /\ CallWalk(root)
  /\ UNCHANGED <<root, entry, depth, pure, fromFile, out, trace, res>>

\* MainRoot without its test of entry == "".
MainRootResolved ==
  /\ pc = "start"
  /\ ~fromFile
  /\ entry = <<>>
  /\ Prepare
  /\ ResolveAndWalk
  /\ UNCHANGED <<root, entry, depth, pure, fromFile, out, trace>>

\* A cluster object and no --entry: the document is walked from its root.
MainRoot ==
  /\ pc = "start"
  /\ ~fromFile
  /\ entry = <<>>
  /\ Prepare
  /\ CallWalk(root)
  /\ UNCHANGED <<root, entry, depth, pure, fromFile, out, trace, res>>

\* A cluster object and an --entry: the entry is resolved first.
MainEntry ==
  /\ pc = "start"
  /\ ~fromFile
  /\ entry # <<>>
  /\ Prepare
  /\ ResolveAndWalk
  /\ UNCHANGED <<root, entry, depth, pure, fromFile, out, trace>>

\* walk has returned to main, which returns.
MainReturn ==
  /\ pc = "walk"
  /\ stack = <<>>
  /\ pc' = "done"
  /\ UNCHANGED <<root, entry, depth, pure, fromFile, entryPath, heap, stack,
                 out, trace, visits, start, res>>

(***************************************************************************)
(* walk, one call or loop iteration at a time.                             *)
(***************************************************************************)
\* The line is written and the call returns.
Emit(text) ==
  /\ out' = Append(out, Line(Elems(heap, Top.path), text))
  /\ trace' = Append(trace, Top.route)
  /\ stack' = Pop
  /\ UNCHANGED <<heap, visits>>

\* The loop of the call is entered.
EnterLoop ==
  /\ stack' = [stack EXCEPT ![Len(stack)].st = "loop"]
  /\ UNCHANGED <<heap, out, trace, visits>>

\* CallChild as "path = append(path, label); walk(child, path, ...)" would be:
\* the caller's own path becomes the longer slice.
CallChildReassign(child, label, step) ==
  LET a == append(heap, Top.path, label)
      r == Append(Top.route, (Top.i \div step) + 1)
  IN  /\ heap' = a.heap
      /\ stack' = Append([stack EXCEPT ![Len(stack)].i = Top.i + step,
                                       ![Len(stack)].path = a.slice],
                         Frame(child, a.slice, nextRem(Top.remain), r))
      /\ visits' = Append(visits, r)
      /\ UNCHANGED <<out, trace>>

\* CallChild in a loop whose index does not move on.
CallChildStuck(child, label, step) ==
  LET a == append(heap, Top.path, label)
      r == Append(Top.route, (Top.i \div step) + 1)
  IN  /\ heap' = a.heap
      /\ stack' = Append(stack, Frame(child, a.slice, nextRem(Top.remain), r))
      /\ visits' = Append(visits, r)
      /\ UNCHANGED <<out, trace>>

\* walk(child, append(path, label), out, nextRem) is called from the loop,
\* whose index moves on by step.
CallChild(child, label, step) ==
  LET a == append(heap, Top.path, label)
      r == Append(Top.route, (Top.i \div step) + 1)
  IN  /\ heap' = a.heap
      /\ stack' = Append([stack EXCEPT ![Len(stack)].i = Top.i + step],
                         Frame(child, a.slice, nextRem(Top.remain), r))
      /\ visits' = Append(visits, r)
      /\ UNCHANGED <<out, trace>>

\* case yaml.MappingNode, up to the loop.
WalkMapping ==
  /\ pc = "walk" /\ stack # <<>>
  /\ Top.st = "enter"
  /\ Top.node.Kind = MappingNode
  /\ IF Top.remain = 0 THEN Emit(ObjectText) ELSE EnterLoop
  /\ UNCHANGED <<root, entry, depth, pure, fromFile, pc, entryPath, start, res>>

\* One iteration of the loop over the entries of a mapping.
WalkMapEntry ==
  /\ pc = "walk" /\ stack # <<>>
  /\ Top.st = "loop"
  /\ Top.node.Kind = MappingNode
  /\ ~loopDone(Top)
  /\ LET keyNode   == Top.node.Content[Top.i + 1]
         valueNode == Top.node.Content[Top.i + 2]
     IN  IF skipped(keyNode.Value)
           THEN /\ stack' = [stack EXCEPT ![Len(stack)].i = Top.i + 2]
                /\ UNCHANGED <<heap, out, trace, visits>>
           ELSE CallChild(valueNode, keyNode.Value, 2)
  /\ UNCHANGED <<root, entry, depth, pure, fromFile, pc, entryPath, start, res>>

\* case yaml.SequenceNode, up to the loop.
WalkSequence ==
  /\ pc = "walk" /\ stack # <<>>
  /\ Top.st = "enter"
  /\ Top.node.Kind = SequenceNode
  /\ IF Top.remain = 0 THEN Emit(ArrayText) ELSE EnterLoop
  /\ UNCHANGED <<root, entry, depth, pure, fromFile, pc, entryPath, start, res>>

\* One iteration of the loop over the items of a sequence.
WalkSeqItem ==
  /\ pc = "walk" /\ stack # <<>>
  /\ Top.st = "loop"
  /\ Top.node.Kind = SequenceNode
  /\ ~loopDone(Top)
  /\ CallChild(Top.node.Content[Top.i + 1], indexLabel(Top.i), 1)
  /\ UNCHANGED <<root, entry, depth, pure, fromFile, pc, entryPath, start, res>>

\* WalkScalar with the depth test of the containers applied to scalars too.
WalkScalarTruncated ==
  /\ pc = "walk" /\ stack # <<>>
  /\ Top.st = "enter"
  /\ Top.node.Kind \notin {MappingNode, SequenceNode}
  /\ IF Top.remain = 0 THEN Emit(ObjectText) ELSE Emit(Top.node.Value)
  /\ UNCHANGED <<root, entry, depth, pure, fromFile, pc, entryPath, start, res>>

\* default: a scalar.
WalkScalar ==
  /\ pc = "walk" /\ stack # <<>>
  /\ Top.st = "enter"
  /\ Top.node.Kind \notin {MappingNode, SequenceNode}
  /\ Emit(Top.node.Value)
  /\ UNCHANGED <<root, entry, depth, pure, fromFile, pc, entryPath, start, res>>

\* The loop of a mapping or sequence is over: the call returns.
WalkReturn ==
  /\ pc = "walk" /\ stack # <<>>
  /\ Top.st = "loop"
  /\ loopDone(Top)
  /\ stack' = Pop
  /\ UNCHANGED <<root, entry, depth, pure, fromFile, pc, entryPath, heap,
                 out, trace, visits, start, res>>

Next ==
  \/ MainFile
  \/ MainRoot
  \/ MainEntry
  \/ MainReturn
  \/ WalkMapping
  \/ WalkMapEntry
  \/ WalkSequence
  \/ WalkSeqItem
  \/ WalkScalar
  \/ WalkReturn

Spec == Init /\ [][Next]_vars

(***************************************************************************)
(* findNodeByPath applied to a document and a path expression.             *)
(***************************************************************************)
InitFind ==
  /\ root \in Trees
  /\ entry \in FindPaths
  /\ depth = -1
  /\ pure = FALSE
  /\ fromFile = FALSE
  /\ pc = "start"
  /\ entryPath = NilSlice
  /\ heap = <<>>
  /\ stack = <<>>
  /\ out = <<>>
  /\ trace = <<>>
  /\ visits = <<>>
  /\ start = NilNode
  /\ res = Found(NilNode, 0)

\* rootNode, err = findNodeByPath(rootNode, entry)
FindCall ==
  /\ pc = "start"
  /\ res' = findNodeByPath(root, entry)
  /\ pc' = "found"
  /\ UNCHANGED <<root, entry, depth, pure, fromFile, entryPath, heap, stack,
                 out, trace, visits, start>>

NextFind == FindCall

SpecFind == InitFind /\ [][NextFind]_vars

(***************************************************************************)
(* --entry handled as src/main.go:296-306 handles it: findNodeByPath is    *)
(* handed rootNode, an error ends the program with panic(err), and the     *)
(* node found is walked with strings.Split(entry, ".") as its path.  That  *)
(* walk has neither --depth nor --pure.                                    *)
(***************************************************************************)
InitEntry ==
  /\ root \in Trees
  /\ entry \in FindPaths \ {<<>>}
  /\ depth = -1
  /\ pure = FALSE
  /\ fromFile = FALSE
  /\ pc = "start"
  /\ entryPath = NilSlice
  /\ heap = <<>>
  /\ stack = <<>>
  /\ out = <<>>
  /\ trace = <<>>
  /\ visits = <<>>
  /\ start = NilNode
  /\ res = Found(NilNode, 0)

MainNavigate ==
  /\ pc = "start"
  /\ entry # <<>>
  /\ Prepare
  /\ LET r == findNodeByPath(root, entry)
     IN  /\ res' = r
         /\ IF r.status = "ok"
              THEN CallWalk(r.node)
              ELSE /\ pc' = "panic"
                   /\ UNCHANGED <<start, stack, visits>>
  /\ UNCHANGED <<root, entry, depth, pure, fromFile, out, trace>>

NextEntry ==
  \/ MainNavigate
  \/ MainReturn
  \/ WalkMapping
  \/ WalkMapEntry
  \/ WalkSequence
  \/ WalkSeqItem
  \/ WalkScalar
  \/ WalkReturn

SpecEntry == InitEntry /\ [][NextEntry]_vars

(***************************************************************************)
(* The document as the claims speak of it: children, routes, pre-order.    *)
(***************************************************************************)
Container(n) == n.Kind \in {MappingNode, SequenceNode}

NumChildren(n) ==
  IF n.Kind = MappingNode THEN Len(n.Content) \div 2
  ELSE IF n.Kind = SequenceNode THEN Len(n.Content) ELSE 0

\* The j-th child (from 1) of a mapping or sequence.
Child(n, j) == IF n.Kind = MappingNode THEN n.Content[2 * j] ELSE n.Content[j]

RECURSIVE NodeAt(_, _)
\* The node a route (child numbers from the top) leads to.
NodeAt(n, r) == IF r = <<>> THEN n ELSE NodeAt(Child(n, r[1]), Tail(r))

RECURSIVE ScalarRoutes(_, _), ScalarRoutesFrom(_, _, _)
\* The routes of the scalars under n in pre-order: entries in document
\* order, items in index order.
ScalarRoutes(n, r) ==
  IF ~Container(n) THEN <<r>> ELSE ScalarRoutesFrom(n, r, 1)
ScalarRoutesFrom(n, r, j) ==
  IF j > NumChildren(n) THEN <<>>
  ELSE ScalarRoutes(Child(n, j), Append(r, j)) \o ScalarRoutesFrom(n, r, j + 1)

RECURSIVE AllRoutes(_)
\* The routes of all nodes under n, n included.
AllRoutes(n) ==
  {<<>>} \cup UNION {{<<j>> \o r : r \in AllRoutes(Child(n, j))}
                       : j \in 1..NumChildren(n)}

RECURSIVE PrunedRoute(_, _)
\* The route passes through (or ends at) a mapping entry with a pruned key.
PrunedRoute(n, r) ==
  /\ r # <<>>
  /\ \/ n.Kind = MappingNode /\ n.Content[2 * r[1] - 1].Value \in autoGenerated
     \/ PrunedRoute(Child(n, r[1]), Tail(r))

IsPrefix(a, b) == Len(a) <= Len(b) /\ SubSeq(b, 1, Len(a)) = a

EndsWith(s, t) == Len(t) <= Len(s) /\ SubSeq(s, Len(s) - Len(t) + 1, Len(s)) = t

\* walk has run to its end on a node.
Flattened == pc = "done" /\ start # NilNode

\* The documents {a: {status: x}}, {a: [x]} and {a: {status: {a: x}}}.
DocNested     == Mapping(<<Scalar(KeyA),
                           Mapping(<<Scalar(KeyStatus), Scalar(ValX)>>)>>)
DocList       == Mapping(<<Scalar(KeyA), Sequence(<<Scalar(ValX)>>)>>)
DocDeepStatus == Mapping(<<Scalar(KeyA),
                   Mapping(<<Scalar(KeyStatus),
                             Mapping(<<Scalar(KeyA), Scalar(ValX)>>)>>)>>)

(***************************************************************************)
(* C1.  With unlimited depth and no pruning, the lines written are exactly *)
(* one line per scalar of the document, each with the scalar's text, in    *)
(* pre-order (entries in document order, items in index order); an empty   *)
(* mapping or sequence adds no line.                                       *)
(***************************************************************************)
C1_OneLinePerScalar ==
  (Flattened /\ depth < 0 /\ ~pure) =>
    /\ trace = ScalarRoutes(start, <<>>)
    /\ Len(out) = Len(trace)
    /\ \A i \in DOMAIN out :
         EndsWith(out[i], <<":", " ">> \o NodeAt(start, trace[i]).Value)

\* [x, {}, x] has been flattened into two lines.
C1_Witness ==
  /\ Flattened /\ depth < 0 /\ ~pure
  /\ root = Sequence(<<Scalar(ValX), Mapping(<<>>), Scalar(ValX)>>)
  /\ trace = << <<1>>, <<3>> >>

(***************************************************************************)
(* C2.  With --pure, no line comes from a mapping entry whose key is in    *)
(* the prune set, nor from anything below such an entry, at any level and  *)
(* for any depth.                                                          *)
(***************************************************************************)
C2_PrunedNeverEmitted ==
  pure => \A i \in DOMAIN trace : ~PrunedRoute(start, trace[i])

\* {a: {status: {a: x}}} with --pure --depth 2: the status entry sits where
\* the depth runs out, and nothing is written for it.
C2_Witness ==
  /\ Flattened /\ pure /\ depth = 2 /\ entry = <<>>
  /\ root = DocDeepStatus
  /\ out = <<>>

(***************************************************************************)
(* C3.  A mapping or sequence reached with the depth counter at zero gets  *)
(* exactly one line, "<prefix>: <object>" or "<prefix>: <array>", and      *)
(* nothing below it gets a line; --depth 0 on a root mapping writes        *)
(* ": <object>" alone and --depth 1 on {a: {status: x}} writes             *)
(* "a: <object>" alone.                                                    *)
(***************************************************************************)
C3_DepthPlaceholder ==
  Flattened =>
    /\ \A i \in DOMAIN trace :
         LET n == NodeAt(start, trace[i])
         IN  Container(n) =>
               /\ Len(trace[i]) = depth
               /\ EndsWith(out[i], <<":", " ">> \o
                     (IF n.Kind = MappingNode THEN ObjectText ELSE ArrayText))
               /\ \A j \in DOMAIN trace : j # i => ~IsPrefix(trace[i], trace[j])
    /\ \A r \in AllRoutes(start) :
         (/\ Len(r) = depth
          /\ Container(NodeAt(start, r))
          /\ ~(pure /\ PrunedRoute(start, r)))
           => \E i \in DOMAIN trace : trace[i] = r
    /\ (depth = 0 /\ root.Kind = MappingNode /\ entry = <<>>)
         => out = << <<":", " ">> \o ObjectText >>
    /\ (depth = 1 /\ root = DocNested /\ entry = <<>>)
         => out = << <<"a", ":", " ">> \o ObjectText >>

\* {a: {status: x}} with --depth 1 has been flattened into "a: <object>".
C3_Witness ==
  /\ Flattened /\ depth = 1 /\ ~pure /\ entry = <<>>
  /\ root = DocNested
  /\ out = << <<"a", ":", " ">> \o ObjectText >>

(***************************************************************************)
(* C4.  The path of every line is its labels rendered with "." between     *)
(* field labels and "[i]" put directly after the token before it, with no  *)
(* character in between; the empty prefix renders as the empty string.     *)
(***************************************************************************)
RECURSIVE RenderedPath(_, _, _)
\* The path of the node at route r under n, after the rendered prefix acc.
RenderedPath(n, r, acc) ==
  IF r = <<>> THEN acc
  ELSE RenderedPath(Child(n, r[1]), Tail(r),
         IF n.Kind = MappingNode
           THEN (IF acc = <<>> THEN <<>> ELSE acc \o <<".">>)
                  \o n.Content[2 * r[1] - 1].Value
           ELSE acc \o <<"[">> \o Itoa(r[1] - 1) \o <<"]">>)

\* What a line says after its path.
LineText(n) ==
  IF n.Kind = MappingNode THEN ObjectText
  ELSE IF n.Kind = SequenceNode THEN ArrayText ELSE n.Value

C4_BracketWithoutDot ==
  \A i \in DOMAIN out :
    out[i] = RenderedPath(start, trace[i], entry) \o <<":", " ">>
               \o LineText(NodeAt(start, trace[i]))

(***************************************************************************)
(* Path expressions as the claims speak of them.                           *)
(***************************************************************************)
\* n is a mapping with an entry whose key is exactly key.
HasKey(n, key) ==
  /\ n.Kind = MappingNode
  /\ \E j \in 1..NumChildren(n) : n.Content[2 * j - 1].Value = key

\* The value of that entry.
EntryValue(n, key) ==
  LET j == CHOOSE j \in 1..NumChildren(n) : n.Content[2 * j - 1].Value = key
  IN  n.Content[2 * j]

IsDigit(ch) == \E d \in 1..10 : Digits[d] = ch

\* A field name: not empty, no bracket.
NameOK(t) == Len(t) >= 1 /\ \A q \in 1..Len(t) : t[q] \notin {"[", "]"}

\* An index: digits, after an optional sign.
NumberOK(t) ==
  LET body == IF Len(t) >= 1 /\ t[1] = "-" THEN Tail(t) ELSE t
  IN  Len(body) >= 1 /\ \A q \in 1..Len(body) : IsDigit(body[q])

\* A token: a field name, optionally followed by one [index].
TokenOK(t) ==
  \/ NameOK(t)
  \/ \E k \in 2..(Len(t) - 2) :
       /\ NameOK(SubSeq(t, 1, k - 1))
       /\ t[k] = "[" /\ t[Len(t)] = "]"
       /\ NumberOK(SubSeq(t, k + 1, Len(t) - 1))

\* A syntactically valid path expression: the empty one, or tokens between dots.
WellFormed(e) ==
  e = <<>> \/ \A k \in DOMAIN Split(e, ".") : TokenOK(Split(e, ".")[k])

\* The index written in the single-token expressions a[i].
IndexPaths == {P_a0, P_a1, P_a2, P_a5}
WrittenIndex(e) ==
  IF e = P_a0 THEN 0 ELSE IF e = P_a1 THEN 1 ELSE IF e = P_a2 THEN 2 ELSE 5

\* findNodeByPath has been applied to root and entry.
Resolved == pc = "found"

\* a[i] is applied to a document whose a is no sequence or too short a one.
IndexFails ==
  /\ Resolved /\ entry \in IndexPaths /\ HasKey(root, KeyA)
  /\ LET c == EntryValue(root, KeyA)
     IN  c.Kind # SequenceNode \/ WrittenIndex(entry) >= Len(c.Content)

\* The document {a: [x, x]}.
DocPair == Mapping(<<Scalar(KeyA), Sequence(<<Scalar(ValX), Scalar(ValX)>>)>>)

C6_NegativeIndexIsError ==
  (Resolved /\ entry = P_aNeg /\ HasKey(root, KeyA)) =>
    res.status = "error" /\ res.fmt = IndexRangeFmt

(***************************************************************************)
(* C7.  A field applied to a mapping without that key, or to a node that   *)
(* is no mapping, fails with a key-not-found error naming the key, for a   *)
(* bare field token and for the field of a name[index] token alike.        *)
(***************************************************************************)
C7_KeyNotFoundNamesKey ==
  /\ (Resolved /\ entry \in {P_a, P_a0} /\ ~HasKey(root, KeyA)) =>
       res.status = "error" /\ res.fmt = KeyNotFoundFmt /\ res.args = <<KeyA>>
  /\ (/\ Resolved /\ entry = P_aSt /\ HasKey(root, KeyA)
      /\ ~HasKey(EntryValue(root, KeyA), KeyStatus)) =>
       res.status = "error" /\ res.fmt = KeyNotFoundFmt
         /\ res.args = <<KeyStatus>>

(***************************************************************************)
(* C8.  A path expression with an unmatched bracket, an index that is no   *)
(* number or an empty field name between dots is rejected as malformed: it *)
(* resolves to no node and does not abort the program.                     *)
(***************************************************************************)
C8_MalformedRejected ==
  (Resolved /\ ~WellFormed(entry)) =>
    res.status = "error" /\ res.fmt = InvalidFormatFmt

(***************************************************************************)
(* C9.  For every document, the empty path expression resolves to the root *)
(* of the document, without error.                                         *)
(***************************************************************************)
C9_EmptyPathIsRoot ==
  (entry = <<>> /\ pc # "start") =>
    start = root /\ res.status = "ok" /\ pc # "panic"

\* {a: [x]} of a cluster object has been flattened from its root, no --entry.
C9_Witness ==
  /\ Flattened /\ entry = <<>> /\ ~fromFile
  /\ root = DocList /\ start = root /\ Len(out) = 1

(***************************************************************************)
(* C10.  Rendering the parsed segments of a syntactically valid path       *)
(* expression gives the expression back, character for character.          *)
(***************************************************************************)
C10_RenderParseRoundTrip ==
  (pc # "start" /\ WellFormed(entry)) =>
    /\ Join(Elems(heap, entryPath), <<".">>) = entry
    /\ (Flattened /\ fromFile /\ ~Container(root))
         => out = <<entry \o <<":", " ">> \o root.Value>>

\* --file of the document x with --entry a[0] has written "a[0]: x".
C10_Witness ==
  /\ Flattened /\ fromFile /\ entry = P_a0 /\ root = Scalar(ValX)
  /\ out = << <<"a", "[", "0", "]", ":", " ", "x">> >>

(***************************************************************************)
(* The path of a line, as walk builds it from the route to its node.       *)
(***************************************************************************)
RECURSIVE RouteLabels(_, _)
\* The labels walk appends on the route r below n: the key of a mapping
\* entry, indexLabel of a sequence item.
RouteLabels(n, r) ==
  IF r = <<>> THEN <<>>
  ELSE <<IF n.Kind = MappingNode THEN n.Content[2 * r[1] - 1].Value
                                 ELSE indexLabel(r[1] - 1)>>
         \o RouteLabels(Child(n, r[1]), Tail(r))

\* The document {a: {status: [x]}}.
DocEntryList == Mapping(<<Scalar(KeyA),
                  Mapping(<<Scalar(KeyStatus), Sequence(<<Scalar(ValX)>>)>>)>>)

\* The host has navigated --entry to a node and flattened it.
Navigated == Flattened /\ entry # <<>> /\ res.status = "ok" /\ start = res.node

(***************************************************************************)
(* C11.  When flattening starts at a node reached by navigating a path,    *)
(* the prefix starts empty: each line's path is made of the labels below   *)
(* the navigated node only, the navigated path is not repeated in front.   *)
(***************************************************************************)
C11_PrefixStartsEmpty ==
  Navigated =>
    \A i \in DOMAIN out :
      out[i] = Line(RouteLabels(start, trace[i]),
                    LineText(NodeAt(start, trace[i])))

(***************************************************************************)
(* C11 as amended.  Every line flattened under a non-empty path expression *)
(* begins with the path expression as it was given; when flattening starts *)
(* at a node reached by navigating the path, the line goes on with the     *)
(* labels below the navigated node.                                        *)
(***************************************************************************)
C11_PrefixIsEntry ==
  /\ (Flattened /\ entry # <<>>) =>
       \A i \in DOMAIN out : IsPrefix(entry, out[i])
  /\ Navigated =>
       /\ Len(out) = Len(trace)
       /\ \A i \in DOMAIN out :
            out[i] = Line(Split(entry, ".") \o RouteLabels(start, trace[i]),
                          LineText(NodeAt(start, trace[i])))

\* a.status of {a: {status: [x]}} has been navigated to and flattened: the one
\* line written starts with a.status.
C11_Witness ==
  /\ Navigated /\ entry = P_aSt /\ root = DocEntryList
  /\ start = Sequence(<<Scalar(ValX)>>)
  /\ out = << P_aSt \o <<".">> \o indexLabel(0) \o <<":", " ", "x">> >>

(***************************************************************************)
(* Navigation as the claims state it: the segments of a syntactically      *)
(* valid path expression, applied in order from the root.                  *)
(***************************************************************************)
RECURSIVE RefNat(_)
\* The number a string of decimal digits denotes.
RefNat(s) ==
  IF Len(s) = 0 THEN 0
  ELSE 10 * RefNat(SubSeq(s, 1, Len(s) - 1)) + DigitVal(s[Len(s)])

\* The index written between the brackets of the token t.
RefIndex(t) ==
  LET num == SubSeq(t, Index(t, "[") + 2, Len(t) - 1)
  IN  IF num[1] = "-" THEN 0 - RefNat(Tail(num)) ELSE RefNat(num)

\* The field name of the token t.
RefName(t) == IF NameOK(t) THEN t ELSE SubSeq(t, 1, Index(t, "["))

\* The node the token t leads to from n; NilNode when t cannot be applied.
RefStep(n, t) ==
  IF ~HasKey(n, RefName(t)) THEN NilNode
  ELSE LET c == EntryValue(n, RefName(t))
       IN  IF NameOK(t) THEN c
           ELSE IF c.Kind = SequenceNode /\ RefIndex(t) >= 0
                     /\ RefIndex(t) < Len(c.Content)
                  THEN c.Content[RefIndex(t) + 1]
                  ELSE NilNode

RECURSIVE RefResolve(_, _, _)
\* The tokens after the first k applied to n: the node reached and the
\* number of tokens examined, the one that could not be applied included.
RefResolve(n, tokens, k) ==
  IF k >= Len(tokens) THEN [ok |-> TRUE, node |-> n, at |-> k]
  ELSE LET c == RefStep(n, tokens[k + 1])
       IN  IF c = NilNode THEN [ok |-> FALSE, node |-> NilNode, at |-> k + 1]
           ELSE RefResolve(c, tokens, k + 1)

\* What navigating entry from the root of the document comes to.
RefEntry == RefResolve(root, Split(entry, "."), 0)

\* The host has been given a valid, non-empty path expression with a segment
\* that cannot be applied, and has handled it.
NavigationFails ==
  pc # "start" /\ entry # <<>> /\ WellFormed(entry) /\ ~RefEntry.ok

(***************************************************************************)
(* C12.  Navigation is fail-fast: the first segment that cannot be applied *)
(* ends resolution with an error, no later segment is examined, no node is *)
(* returned, and the host writes no flattened line.                        *)
(***************************************************************************)
C12_FailFast ==
  NavigationFails =>
    /\ res.status = "error"
    /\ res.at = RefEntry.at
    /\ res.node = NilNode
    /\ start = NilNode /\ out = <<>> /\ visits = <<>>

(***************************************************************************)
(* C13.  Given a non-empty path expression that resolves in the document,  *)
(* the host flattens exactly the subtree the path resolves to, for a       *)
(* document read from a file and for one fetched from a cluster alike: it  *)
(* neither flattens the whole document nor rejects the path.               *)
(***************************************************************************)
C13_FlattensResolvedSubtree ==
  (pc = "done" /\ entry # <<>> /\ WellFormed(entry) /\ RefEntry.ok) =>
    /\ res.status = "ok"
    /\ start = RefEntry.node
    /\ Len(out) = Len(trace)
    /\ \A i \in DOMAIN trace : trace[i] \in AllRoutes(RefEntry.node)

\* The document {a: x}.
DocOne == Mapping(<<Scalar(KeyA), Scalar(ValX)>>)

\* The route r below the start node is walked: no entry on it is skipped.
Kept(r) == ~(pure /\ PrunedRoute(start, r))

\* The routes of the scalars of the start node that are kept, in pre-order.
KeptScalarRoutes ==
  LET keep(r) == Kept(r) IN SelectSeq(ScalarRoutes(start, <<>>), keep)

(***************************************************************************)
(* C14.  The remaining-depth counter of a call of walk is --depth less one *)
(* for each mapping or sequence descended into, and is left as it is when  *)
(* negative.  A scalar that is reached is written with its value whatever  *)
(* the counter is: --depth 1 on {a: x} writes "a: x", --depth 0 on a root  *)
(* scalar writes its value.  With a negative --depth nothing is truncated: *)
(* the lines are those of all kept scalars.                                *)
(***************************************************************************)
C14_DepthCounter ==
  /\ \A k \in DOMAIN stack :
       /\ stack[k].remain =
            IF depth < 0 THEN depth ELSE depth - Len(stack[k].route)
       /\ depth >= 0 => stack[k].remain >= 0
  /\ Flattened =>
       /\ \A j \in DOMAIN KeptScalarRoutes :
            LET r == KeptScalarRoutes[j]
            IN  (depth < 0 \/ Len(r) <= depth) =>
                  \E i \in DOMAIN out :
                    /\ trace[i] = r
                    /\ EndsWith(out[i], <<":", " ">> \o NodeAt(start, r).Value)
       /\ \A i \in DOMAIN out :
            ~Container(NodeAt(start, trace[i])) =>
              EndsWith(out[i], <<":", " ">> \o NodeAt(start, trace[i]).Value)
       /\ depth < 0 =>
            /\ trace = KeptScalarRoutes
            /\ \A i \in DOMAIN out : ~Container(NodeAt(start, trace[i]))
       /\ (depth = 1 /\ entry = <<>> /\ root = DocOne)
            => out = << <<"a", ":", " ", "x">> >>
       /\ (depth = 0 /\ entry = <<>> /\ root = Scalar(ValX))
            => out = << <<":", " ", "x">> >>

\* --depth 1 on {a: x} has written "a: x".
C14_Witness ==
  /\ Flattened /\ depth = 1 /\ entry = <<>> /\ root = DocOne
  /\ out = << <<"a", ":", " ", "x">> >>

\* The path a call of walk on the node at route r is to see: the starting
\* path, then the labels of the route.
PathOf(r) == parseEntry(entry) \o RouteLabels(start, r)

(***************************************************************************)
(* C15.  The path of every line is the starting path followed by the keys  *)
(* and indices on the route from the start node to the line's node.        *)
(* Appending a label to the parent's path slice, in place where the        *)
(* backing array has room, never changes the path of any call of walk that *)
(* is still to write or to pass its path on (a sibling, an ancestor), nor  *)
(* entryPath of the caller.                                                *)
(***************************************************************************)
C15_PathsUnaliased ==
  /\ \A k \in DOMAIN stack :
       Elems(heap, stack[k].path) = PathOf(stack[k].route)
  /\ pc \in {"walk", "done"} => Elems(heap, entryPath) = parseEntry(entry)
  /\ Len(out) = Len(trace)
  /\ \A i \in DOMAIN out :
       out[i] = Join(PathOf(trace[i]), <<".">>) \o <<":", " ">>
                  \o LineText(NodeAt(start, trace[i]))

\* --file of {a: [x, x]} with --entry a.status: the paths of both items were
\* written into the one array the path of the sequence lies in, the second
\* over the first.
C15_Witness ==
  /\ Flattened /\ fromFile /\ entry = P_aSt /\ root = DocPair
  /\ Len(heap) = 2
  /\ heap[2] = <<KeyA, KeyStatus, KeyA, indexLabel(1)>>
  /\ trace = << <<1, 1>>, <<1, 2>> >>
  /\ out[1] = P_aSt \o <<".", "a", ".">> \o indexLabel(0) \o <<":", " ", "x">>
  /\ out[2] = P_aSt \o <<".", "a", ".">> \o indexLabel(1) \o <<":", " ", "x">>

(***************************************************************************)
(* The program runs on: a step that can be taken is taken.                 *)
(***************************************************************************)
SpecFair == Init /\ [][Next]_vars /\ WF_vars(Next)

\* The run of main has come to its end.
Finished == pc \in {"done", "panic"}

\* No node has been handed to walk twice, and only nodes of the start node.
VisitsOnce ==
  /\ \A i, j \in DOMAIN visits : i # j => visits[i] # visits[j]
  /\ \A i \in DOMAIN visits : start # NilNode /\ visits[i] \in AllRoutes(start)

\* findNodeByPath ends on every path expression, having examined no more
\* parts than the expression has dotted tokens.
ResolveBounded ==
  /\ pc = "start" =>
       \A e \in FindPaths :
         LET r == findNodeByPath(root, e)
         IN  /\ r.status \in {"ok", "error", "panic"}
             /\ r.at <= Len(Split(e, "."))
             /\ r.status = "ok" => r.at = Len(Split(e, "."))
  /\ res.at <= Len(Split(entry, "."))

(***************************************************************************)
(* C16.  For every document, every --depth and either setting of --pure,   *)
(* walk comes to its end having been called on each node at most once; and *)
(* for every path expression findNodeByPath comes to its end having        *)
(* examined at most one part per dotted token.                             *)
(***************************************************************************)
C16_Terminates ==
  /\ [](VisitsOnce /\ ResolveBounded)
  /\ <>Finished

\* {a: [x, x]} has been flattened: walk was called once on each of its four
\* nodes.
C16_Witness ==
  /\ Flattened /\ root = DocPair /\ start = root /\ depth < 0
  /\ visits = << <<>>, <<1>>, <<1, 1>>, <<1, 2>> >>

=============================================================================
